---- MODULE Spec2Model ----
(***************************************************************************)
(* Model of the integration-test transaction factory                       *)
(* (testutil/integration/evmos/factory/build.go).                          *)
(*                                                                         *)
(* Every entry point of the factory is a synchronous, single-threaded      *)
(* call.  A call is one action: it takes its inputs and the answers its    *)
(* collaborators will give (the record e), runs the whole function, and    *)
(* leaves behind the returned value, the returned error and the trace of   *)
(* collaborator calls made on the way.                                     *)
(*                                                                         *)
(* Go values: a nil pointer is the empty sequence <<>> and a pointer to v  *)
(* is <<v>>; an error is the sequence of its wrap labels, outermost        *)
(* first, ending in its root cause, which is named after the call that     *)
(* raised it; the nil error is <<>>.                                       *)
(***************************************************************************)
EXTENDS Integers, Sequences, FiniteSets, TLC

VARIABLES pc, entry, input, out, ctx

vars == <<pc, entry, input, out, ctx>>

----------------------------------------------------------------------------
(* Bounds of the model *)

\* caller nonces range over 0..MaxNonce; the account nonce is MaxNonce + 1
MaxNonce == 1
\* caller gas limits range over 0..MaxGas; the estimate is MaxGas + 1
MaxGas == 1
\* caller fee values (gas price, fee cap, tip cap) range over 1..MaxFee; the
\* base fee is MaxFee + 1
MaxFee == 1
\* tx type tags range over 0..MaxTxType
MaxTxType == 3

----------------------------------------------------------------------------
(* Program constants *)

LegacyTxType == 0
AccessListTxType == 1
DynamicFeeTxType == 2
\* big.NewInt(1e9)
DefaultGasPrice == 1000000000
\* common.Hash{0}: the all-zero hash
ZeroHash == 0
\* config.DefaultGasCap, kept symbolic
DefaultGasCap == "config.DefaultGasCap"

----------------------------------------------------------------------------
(* Go values *)

NilPtr == <<>>
Ptr(v) == <<v>>
Deref(p) == p[1]

NoErr == <<>>
\* the error a failing call returns, before anyone wraps it
Raised(by) == <<by>>
\* errorsmod.Wrap(err, label)
Wrap(err, label) == <<label>> \o err

Addresses == {"0xA1", "0xB2"}
PrivKeys == {"keyA", "keyB"}
\* common.BytesToAddress(privKey.PubKey().Address().Bytes())
AddressOf(privKey) == IF privKey = "keyA" THEN "0xA1" ELSE "0xB2"

\* evmtypes.EvmTxArgs{}
EmptyArgs ==
  [To |-> NilPtr, Input |-> <<>>, Nonce |-> 0, GasLimit |-> 0,
   GasPrice |-> NilPtr, GasFeeCap |-> NilPtr, GasTipCap |-> NilPtr,
   Amount |-> NilPtr, Accesses |-> NilPtr]

\* evmtypes.MsgEthereumTx{}
EmptyMsg == [From |-> "", Args |-> EmptyArgs, Type |-> LegacyTxType, Signed |-> FALSE]

\* the context threaded through one call: what has been called so far, in order
EmptyCtx == [trace |-> <<>>, handed |-> <<>>, built |-> <<>>, estimated |-> <<>>]

Called(c, op) == [c EXCEPT !.trace = Append(@, op)]

Ret(val, err, c) == [val |-> val, err |-> err, c |-> c]

\* r, err := f(...); if err != nil { return zero, errorsmod.Wrap(err, label) }; Rest(r)
Try(r, zero, label, Rest(_)) ==
  IF r.err # NoErr THEN Ret(zero, Wrap(r.err, label), r.c) ELSE Rest(r)

\* r, err := f(...); if err != nil { return r, err }; Rest(r)
Pass(r, Rest(_)) ==
  IF r.err # NoErr THEN r ELSE Rest(r)

----------------------------------------------------------------------------
(* Collaborators.  e fixes, for one call, what each collaborator answers:   *)
(*   marshalErr       json.Marshal fails                                    *)
(*   estErr, estGas   EstimateGas fails; the gas in its response            *)
(*   nonceErr, nonce  the nonce source fails; the account nonce             *)
(*   baseFeeErr       GetBaseFee fails when default population asks         *)
(*   baseFeeErrLate   GetBaseFee fails when GenerateGethCoreMsg asks        *)
(*   baseFee          the base fee                                          *)
(*   signErr          the signer fails                                      *)
(*   convErr          the final conversion fails                            *)
(*   convPartial      a failed conversion hands back a partly built value   *)

Env(marshalErr, estErr, nonceErr, baseFeeErr, signErr, baseFeeErrLate, convErr, convPartial) ==
  [marshalErr |-> marshalErr, estErr |-> estErr, estGas |-> MaxGas + 1,
   nonceErr |-> nonceErr, nonce |-> MaxNonce + 1,
   baseFeeErr |-> baseFeeErr, baseFeeErrLate |-> baseFeeErrLate, baseFee |-> MaxFee + 1,
   signErr |-> signErr, convErr |-> convErr, convPartial |-> convPartial]

\* tf.grpcHandler.GetBaseFee()
GetBaseFee(fails, fee, c) ==
  LET c1 == Called(c, "GetBaseFee") IN
  IF fails THEN Ret(0, Raised("GetBaseFee"), c1) ELSE Ret(fee, NoErr, c1)

\* evmtypes.TransactionArgs{Data, From, To, AccessList} as json.Marshal sees it
TransactionArgs(from, txArgs) ==
  [Data |-> txArgs.Input, From |-> from, To |-> txArgs.To,
   AccessList |-> txArgs.Accesses]

\* EstimateGasLimit with the error paths returning the response's gas
EstimateGasLimit_LeakGas(from, txArgs, e, c) ==
  LET c1 == Called(c, "json.Marshal") IN
  IF e.marshalErr
    THEN Ret(e.estGas, Wrap(Raised("json.Marshal"), "failed to marshal tx args"), c1)
    ELSE LET c2 == [Called(c1, "EstimateGas") EXCEPT
                      !.estimated = Append(@, [args |-> TransactionArgs(from, txArgs),
                                               gasCap |-> DefaultGasCap])]
         IN IF e.estErr
              THEN Ret(e.estGas, Wrap(Raised("EstimateGas"), "failed to estimate gas"), c2)
              ELSE Ret(e.estGas, NoErr, c2)

\* EstimateGasLimit retrying the query once after a failure
EstimateGasLimit_Retry(from, txArgs, e, c) ==
  LET c1 == Called(c, "json.Marshal") IN
  IF e.marshalErr
    THEN Ret(0, Wrap(Raised("json.Marshal"), "failed to marshal tx args"), c1)
    ELSE LET q  == [args |-> TransactionArgs(from, txArgs), gasCap |-> DefaultGasCap]
             c2 == [Called(c1, "EstimateGas") EXCEPT !.estimated = Append(@, q)]
             c3 == [Called(c2, "EstimateGas") EXCEPT !.estimated = Append(@, q)]
         IN IF e.estErr
              THEN Ret(0, Wrap(Raised("EstimateGas"), "failed to estimate gas"), c3)
              ELSE Ret(e.estGas, NoErr, c2)

\* func (tf *IntegrationTxFactory) EstimateGasLimit(from, txArgs) (uint64, error)
EstimateGasLimit(from, txArgs, e, c) ==
  LET c1 == Called(c, "json.Marshal") IN
  IF e.marshalErr
    THEN Ret(0, Wrap(Raised("json.Marshal"), "failed to marshal tx args"), c1)
    ELSE LET c2 == [Called(c1, "EstimateGas") EXCEPT
                      !.estimated = Append(@, [args |-> TransactionArgs(from, txArgs),
                                               gasCap |-> DefaultGasCap])]
         IN IF e.estErr
              THEN Ret(0, Wrap(Raised("EstimateGas"), "failed to estimate gas"), c2)
              ELSE Ret(e.estGas, NoErr, c2)

----------------------------------------------------------------------------
(* Default population (tf.populateEvmTxArgs): fills the nonce from the      *)
(* nonce source, the dynamic fee fields from the base fee when no gas price *)
(* is set, and the gas limit from EstimateGasLimit; a field the caller set  *)
(* is left as it is.  On failure no partial args are returned.              *)

populateNonce(fromAddr, txArgs, e, c) ==
  IF txArgs.Nonce # 0 THEN Ret(txArgs, NoErr, c)
  ELSE IF e.nonceErr
    THEN Ret(EmptyArgs, Wrap(Raised("GetEvmAccount"), "failed to get evm account"),
             Called(c, "GetEvmAccount"))
    ELSE Ret([txArgs EXCEPT !.Nonce = e.nonce], NoErr, Called(c, "GetEvmAccount"))

populateFees(txArgs, e, c) ==
  IF txArgs.GasPrice # NilPtr \/ (txArgs.GasFeeCap # NilPtr /\ txArgs.GasTipCap # NilPtr)
    THEN Ret(txArgs, NoErr, c)
    ELSE Try(GetBaseFee(e.baseFeeErr, e.baseFee, c), EmptyArgs, "failed to get base fee",
             LAMBDA f :
               Ret([txArgs EXCEPT
                      !.GasFeeCap = IF @ = NilPtr THEN Ptr(f.val) ELSE @,
                      !.GasTipCap = IF @ = NilPtr THEN Ptr(f.val) ELSE @],
                   NoErr, f.c))

populateGasLimit(fromAddr, txArgs, e, c) ==
  IF txArgs.GasLimit # 0 THEN Ret(txArgs, NoErr, c)
    ELSE Try(EstimateGasLimit(Ptr(fromAddr), txArgs, e, c),
             EmptyArgs, "failed to estimate gas limit",
             LAMBDA g : Ret([txArgs EXCEPT !.GasLimit = g.val], NoErr, g.c))

populateReturn(r) == Ret(r.val, r.err, Called(r.c, "populateEvmTxArgs.return"))

populateEvmTxArgs(fromAddr, txArgs, e, c) ==
  populateReturn(
    Pass(populateNonce(fromAddr, txArgs, e,
                       [Called(c, "populateEvmTxArgs") EXCEPT !.handed = Append(@, txArgs)]),
         LAMBDA r1 :
           Pass(populateFees(r1.val, e, r1.c),
                LAMBDA r2 : populateGasLimit(fromAddr, r2.val, e, r2.c))))

----------------------------------------------------------------------------
(* GenerateDefaultTxTypeArgs *)

\* the default access list: one entry, the sender with one zero storage key
DefaultAccesses(sender) ==
  Ptr(<<[Address |-> sender, StorageKeys |-> <<ZeroHash>>]>>)

\* GenerateDefaultTxTypeArgs treating an unknown tag as a dynamic-fee request
GenerateDefaultTxTypeArgs_FallThrough(sender, txType, e, c) ==
  LET defaultArgs == EmptyArgs IN
  CASE txType = AccessListTxType ->
         populateEvmTxArgs(sender,
           [defaultArgs EXCEPT !.Accesses = DefaultAccesses(sender),
                               !.GasPrice = Ptr(DefaultGasPrice)], e, c)
    [] txType = LegacyTxType ->
         populateEvmTxArgs(sender,
           [defaultArgs EXCEPT !.GasPrice = Ptr(DefaultGasPrice)], e, c)
    [] OTHER ->
         populateEvmTxArgs(sender, defaultArgs, e, c)

\* GenerateDefaultTxTypeArgs leaving the legacy gas price unset
GenerateDefaultTxTypeArgs_NoLegacyGasPrice(sender, txType, e, c) ==
  LET defaultArgs == EmptyArgs IN
  CASE txType = DynamicFeeTxType ->
         populateEvmTxArgs(sender, defaultArgs, e, c)
    [] txType = AccessListTxType ->
         populateEvmTxArgs(sender,
           [defaultArgs EXCEPT !.Accesses = DefaultAccesses(sender),
                               !.GasPrice = Ptr(DefaultGasPrice)], e, c)
    [] txType = LegacyTxType ->
         populateEvmTxArgs(sender, defaultArgs, e, c)
    [] OTHER ->
         Ret(EmptyArgs, Raised("tx type not supported"), c)

\* GenerateDefaultTxTypeArgs with an access list entry that has no storage key
GenerateDefaultTxTypeArgs_NoStorageKey(sender, txType, e, c) ==
  LET defaultArgs == EmptyArgs IN
  CASE txType = DynamicFeeTxType ->
         populateEvmTxArgs(sender, defaultArgs, e, c)
    [] txType = AccessListTxType ->
         populateEvmTxArgs(sender,
           [defaultArgs EXCEPT
              !.Accesses = Ptr(<<[Address |-> sender, StorageKeys |-> <<>>]>>),
              !.GasPrice = Ptr(DefaultGasPrice)], e, c)
    [] txType = LegacyTxType ->
         populateEvmTxArgs(sender,
           [defaultArgs EXCEPT !.GasPrice = Ptr(DefaultGasPrice)], e, c)
    [] OTHER ->
         Ret(EmptyArgs, Raised("tx type not supported"), c)

\* func (tf *IntegrationTxFactory) GenerateDefaultTxTypeArgs(sender, txType)
GenerateDefaultTxTypeArgs(sender, txType, e, c) ==
  LET defaultArgs == EmptyArgs IN
  CASE txType = DynamicFeeTxType ->
         populateEvmTxArgs(sender, defaultArgs, e, c)
    [] txType = AccessListTxType ->
         populateEvmTxArgs(sender,
           [defaultArgs EXCEPT !.Accesses = DefaultAccesses(sender),
                               !.GasPrice = Ptr(DefaultGasPrice)], e, c)
    [] txType = LegacyTxType ->
         populateEvmTxArgs(sender,
           [defaultArgs EXCEPT !.GasPrice = Ptr(DefaultGasPrice)], e, c)
    [] OTHER ->
         Ret(EmptyArgs, Raised("tx type not supported"), c)

----------------------------------------------------------------------------
(* Message construction, signing, validation, conversion *)

\* the tx type implied by the populated fee fields
TypeOf(txArgs) ==
  IF txArgs.GasPrice = NilPtr THEN DynamicFeeTxType
  ELSE IF txArgs.Accesses # NilPtr THEN AccessListTxType
  ELSE LegacyTxType

\* buildMsgEthereumTx(txArgs, fromAddr): the unsigned envelope
buildMsgEthereumTx(txArgs, fromAddr, c) ==
  Ret([From |-> fromAddr, Args |-> txArgs, Type |-> TypeOf(txArgs), Signed |-> FALSE],
      NoErr,
      [Called(c, "buildMsgEthereumTx") EXCEPT !.built = Append(@, txArgs)])

\* tf.SignMsgEthereumTx(privKey, msg): the one local signing operation
SignMsgEthereumTx(privKey, msg, e, c) ==
  LET c1 == Called(c, "SignMsgEthereumTx") IN
  IF e.signErr
    THEN Ret(EmptyMsg, Wrap(Raised("SignMsgEthereumTx"), "failed to sign transaction"), c1)
    ELSE Ret([msg EXCEPT !.Signed = TRUE], NoErr, c1)

\* signedMsg.ValidateBasic(): the transferred value must not be negative
ValidateBasic(msg, c) ==
  LET c1 == Called(c, "ValidateBasic") IN
  IF msg.Args.Amount # NilPtr /\ Deref(msg.Args.Amount) < 0
    THEN Ret(NilPtr, Raised("ValidateBasic"), c1)
    ELSE Ret(NilPtr, NoErr, c1)

\* tf.buildSignedTx(signedMsg): the caller-facing signing.Tx
buildSignedTx(msg, e, c) ==
  LET c1 == Called(c, "buildSignedTx") IN
  IF e.convErr
    THEN Ret(IF e.convPartial THEN Ptr([Msgs |-> <<>>]) ELSE NilPtr, Raised("buildSignedTx"), c1)
    ELSE Ret(Ptr([Msgs |-> <<msg>>]), NoErr, c1)

Min(a, b) == IF a < b THEN a ELSE b

\* the gas price the message pays given the base fee
EffectiveGasPrice(txArgs, baseFee) ==
  IF txArgs.GasPrice # NilPtr THEN Deref(txArgs.GasPrice)
  ELSE Min(Deref(txArgs.GasTipCap) + baseFee, Deref(txArgs.GasFeeCap))

\* signedMsg.AsMessage(signer, baseFee): the execution message
AsMessage(msg, baseFee, e, c) ==
  LET c1 == Called(c, "AsMessage")
      m  == [From |-> msg.From, To |-> msg.Args.To, Value |-> msg.Args.Amount,
             Gas |-> msg.Args.GasLimit, Nonce |-> msg.Args.Nonce,
             GasPrice |-> EffectiveGasPrice(msg.Args, baseFee)]
  IN IF e.convErr
       THEN Ret(IF e.convPartial THEN Ptr([m EXCEPT !.From = ""]) ELSE NilPtr,
                Raised("AsMessage"), c1)
       ELSE Ret(Ptr(m), NoErr, c1)

\* GenerateMsgEthereumTx building the message from fresh defaults
GenerateMsgEthereumTx_FreshArgs(privKey, txArgs, e, c) ==
  Try(populateEvmTxArgs(AddressOf(privKey), EmptyArgs, e, c),
      EmptyMsg, "failed to populate tx args",
      LAMBDA r : buildMsgEthereumTx(r.val, AddressOf(privKey), r.c))

\* func (tf *IntegrationTxFactory) GenerateMsgEthereumTx(privKey, txArgs)
GenerateMsgEthereumTx(privKey, txArgs, e, c) ==
  Try(populateEvmTxArgs(AddressOf(privKey), txArgs, e, c),
      EmptyMsg, "failed to populate tx args",
      LAMBDA r : buildMsgEthereumTx(r.val, AddressOf(privKey), r.c))

\* GenerateSignedMsgEthereumTx handing back the message unsigned
GenerateSignedMsgEthereumTx_NoSign(privKey, txArgs, e, c) ==
  Try(GenerateMsgEthereumTx(privKey, txArgs, e, c),
      EmptyMsg, "failed to create ethereum tx",
      LAMBDA msgEthereumTx : msgEthereumTx)

\* func (tf *IntegrationTxFactory) GenerateSignedMsgEthereumTx(privKey, txArgs)
GenerateSignedMsgEthereumTx(privKey, txArgs, e, c) ==
  Try(GenerateMsgEthereumTx(privKey, txArgs, e, c),
      EmptyMsg, "failed to create ethereum tx",
      LAMBDA msgEthereumTx :
        SignMsgEthereumTx(privKey, msgEthereumTx.val, e, msgEthereumTx.c))

\* GenerateSignedEthTx without the validation step
GenerateSignedEthTx_NoValidate(privKey, txArgs, e, c) ==
  Try(GenerateSignedMsgEthereumTx(privKey, txArgs, e, c),
      NilPtr, "failed to generate signed MsgEthereumTx",
      LAMBDA signedMsg : buildSignedTx(signedMsg.val, e, signedMsg.c))

\* the steps of GenerateSignedEthTx all run, whatever the earlier ones returned
RunAllSteps(r, v, b) ==
  IF r.err # NoErr
    THEN Ret(NilPtr, Wrap(r.err, "failed to generate signed MsgEthereumTx"), b.c)
  ELSE IF v.err # NoErr
    THEN Ret(NilPtr, Wrap(v.err, "failed to validate transaction"), b.c)
  ELSE b

\* GenerateSignedEthTx going on to build the tx after a failed step
GenerateSignedEthTx_NoShortCircuit(privKey, txArgs, e, c) ==
  LET r == GenerateSignedMsgEthereumTx(privKey, txArgs, e, c)
      v == ValidateBasic(r.val, r.c)
  IN RunAllSteps(r, v, buildSignedTx(r.val, e, v.c))

\* GenerateSignedEthTx validating only after the tx is built
GenerateSignedEthTx_ValidateLate(privKey, txArgs, e, c) ==
  Try(GenerateSignedMsgEthereumTx(privKey, txArgs, e, c),
      NilPtr, "failed to generate signed MsgEthereumTx",
      LAMBDA signedMsg :
        Pass(buildSignedTx(signedMsg.val, e, signedMsg.c),
             LAMBDA tx :
               Try(ValidateBasic(signedMsg.val, tx.c),
                   NilPtr, "failed to validate transaction",
                   LAMBDA ok : Ret(tx.val, NoErr, ok.c))))

\* func (tf *IntegrationTxFactory) GenerateSignedEthTx(privKey, txArgs)
GenerateSignedEthTx(privKey, txArgs, e, c) ==
  Try(GenerateSignedMsgEthereumTx(privKey, txArgs, e, c),
      NilPtr, "failed to generate signed MsgEthereumTx",
      LAMBDA signedMsg :
        Try(ValidateBasic(signedMsg.val, signedMsg.c),
            NilPtr, "failed to validate transaction",
            LAMBDA ok : buildSignedTx(signedMsg.val, e, ok.c)))

\* func (tf *IntegrationTxFactory) GenerateGethCoreMsg(privKey, txArgs)
GenerateGethCoreMsg(privKey, txArgs, e, c) ==
  Try(GenerateMsgEthereumTx(privKey, txArgs, e, c),
      NilPtr, "failed to generate ethereum tx",
      LAMBDA msg :
        Try(SignMsgEthereumTx(privKey, msg.val, e, msg.c),
            NilPtr, "failed to sign ethereum tx",
            LAMBDA signedMsg :
              Try(GetBaseFee(e.baseFeeErrLate, e.baseFee, signedMsg.c),
                  NilPtr, "failed to get base fee",
                  LAMBDA baseFeeResp :
                    AsMessage(signedMsg.val, baseFeeResp.val, e,
                              Called(baseFeeResp.c, "GetEIP155ChainID")))))

----------------------------------------------------------------------------
(* The callers' inputs *)

TxTypeTags == 0..MaxTxType

OptFee == {NilPtr} \cup {Ptr(v) : v \in 1..MaxFee}

CallerAccesses == Ptr(<<[Address |-> "0xC3", StorageKeys |-> <<1, 2>>]>>)

TxArgsSet ==
  [To : {NilPtr, Ptr("0xC3")}, Input : {<<>>, <<1>>},
   Nonce : 0..MaxNonce, GasLimit : 0..MaxGas,
   GasPrice : OptFee, GasFeeCap : OptFee, GasTipCap : OptFee,
   Amount : {NilPtr, Ptr(-1), Ptr(1)},
   Accesses : {NilPtr, CallerAccesses}]

NoInput == [sender |-> "", txType |-> 0, from |-> NilPtr, privKey |-> "", txArgs |-> EmptyArgs]

----------------------------------------------------------------------------
(* The state machine: a caller makes one call at a time and takes its      *)
(* result before making the next.                                          *)

Init ==
  /\ pc = "idle"
  /\ entry = "none"
  /\ input = NoInput
  /\ out = [val |-> NilPtr, err |-> NoErr]
  /\ ctx = EmptyCtx

Returned(name, in, r) ==
  /\ pc' = "returned"
  /\ entry' = name
  /\ input' = in
  /\ out' = [val |-> r.val, err |-> r.err]
  /\ ctx' = r.c

CallGenerateDefaultTxTypeArgs ==
  /\ pc = "idle"
  /\ \E sender \in Addresses, txType \in TxTypeTags,
        marshalErr, estErr, nonceErr, baseFeeErr \in BOOLEAN :
       LET e == Env(marshalErr, estErr, nonceErr, baseFeeErr, FALSE, FALSE, FALSE, FALSE)
       IN Returned("GenerateDefaultTxTypeArgs",
                   [NoInput EXCEPT !.sender = sender, !.txType = txType],
                   GenerateDefaultTxTypeArgs(sender, txType, e, EmptyCtx))

CallEstimateGasLimit ==
  /\ pc = "idle"
  /\ \E from \in {NilPtr} \cup {Ptr(a) : a \in Addresses}, txArgs \in TxArgsSet,
        marshalErr, estErr \in BOOLEAN :
       LET e == Env(marshalErr, estErr, FALSE, FALSE, FALSE, FALSE, FALSE, FALSE)
       IN Returned("EstimateGasLimit",
                   [NoInput EXCEPT !.from = from, !.txArgs = txArgs],
                   EstimateGasLimit(from, txArgs, e, EmptyCtx))

CallGenerateMsgEthereumTx ==
  /\ pc = "idle"
  /\ \E privKey \in PrivKeys, txArgs \in TxArgsSet,
        marshalErr, estErr, nonceErr, baseFeeErr \in BOOLEAN :
       LET e == Env(marshalErr, estErr, nonceErr, baseFeeErr, FALSE, FALSE, FALSE, FALSE)
       IN Returned("GenerateMsgEthereumTx",
                   [NoInput EXCEPT !.privKey = privKey, !.txArgs = txArgs],
                   GenerateMsgEthereumTx(privKey, txArgs, e, EmptyCtx))

CallGenerateSignedMsgEthereumTx ==
  /\ pc = "idle"
  /\ \E privKey \in PrivKeys, txArgs \in TxArgsSet,
        marshalErr, estErr, nonceErr, baseFeeErr, signErr \in BOOLEAN :
       LET e == Env(marshalErr, estErr, nonceErr, baseFeeErr, signErr, FALSE, FALSE, FALSE)
       IN Returned("GenerateSignedMsgEthereumTx",
                   [NoInput EXCEPT !.privKey = privKey, !.txArgs = txArgs],
                   GenerateSignedMsgEthereumTx(privKey, txArgs, e, EmptyCtx))

CallGenerateSignedEthTx ==
  /\ pc = "idle"
  /\ \E privKey \in PrivKeys, txArgs \in TxArgsSet,
        marshalErr, estErr, nonceErr, baseFeeErr, signErr, convErr, convPartial \in BOOLEAN :
       LET e == Env(marshalErr, estErr, nonceErr, baseFeeErr, signErr, FALSE, convErr, convPartial)
       IN Returned("GenerateSignedEthTx",
                   [NoInput EXCEPT !.privKey = privKey, !.txArgs = txArgs],
                   GenerateSignedEthTx(privKey, txArgs, e, EmptyCtx))

CallGenerateGethCoreMsg ==
  /\ pc = "idle"
  /\ \E privKey \in PrivKeys, txArgs \in TxArgsSet,
        marshalErr, estErr, nonceErr, baseFeeErr, signErr, baseFeeErrLate,
        convErr, convPartial \in BOOLEAN :
       LET e == Env(marshalErr, estErr, nonceErr, baseFeeErr, signErr, baseFeeErrLate,
                    convErr, convPartial)
       IN Returned("GenerateGethCoreMsg",
                   [NoInput EXCEPT !.privKey = privKey, !.txArgs = txArgs],
                   GenerateGethCoreMsg(privKey, txArgs, e, EmptyCtx))

\* the caller takes the result; nothing of the call outlives it
TakeResult ==
  /\ pc = "returned"
  /\ pc' = "idle"
  /\ entry' = "none"
  /\ input' = NoInput
  /\ out' = [val |-> NilPtr, err |-> NoErr]
  /\ ctx' = EmptyCtx

Next ==
  \/ CallGenerateDefaultTxTypeArgs
  \/ CallEstimateGasLimit
  \/ CallGenerateMsgEthereumTx
  \/ CallGenerateSignedMsgEthereumTx
  \/ CallGenerateSignedEthTx
  \/ CallGenerateGethCoreMsg
  \/ TakeResult

Spec == Init /\ [][Next]_vars

----------------------------------------------------------------------------
(* Reading a finished call *)

Count(tr, op) == Cardinality({i \in DOMAIN tr : tr[i] = op})

\* every op in the trace has an earlier before
Precedes(tr, before, op) ==
  \A j \in DOMAIN tr : tr[j] = op => \E i \in 1..(j - 1) : tr[i] = before

\* the call that raised the returned error
Cause(err) == err[Len(err)]

\* the last call made, the return of default population set aside
LastCall(tr) ==
  IF tr[Len(tr)] = "populateEvmTxArgs.return" THEN tr[Len(tr) - 1] ELSE tr[Len(tr)]

Negative(p) == p # NilPtr /\ Deref(p) < 0

Supported == {LegacyTxType, AccessListTxType, DynamicFeeTxType}

MsgEntries ==
  {"GenerateMsgEthereumTx", "GenerateSignedMsgEthereumTx",
   "GenerateSignedEthTx", "GenerateGethCoreMsg"}

\* the labels that name the step a failure came from; the conversions have none
\* in the code, any label would do
StepLabels(cause) ==
  CASE cause \in {"GetEvmAccount", "json.Marshal", "EstimateGas"} ->
         {"failed to populate tx args"}
    [] cause = "GetBaseFee" ->
         {"failed to populate tx args", "failed to get base fee"}
    [] cause = "SignMsgEthereumTx" ->
         {"failed to sign ethereum tx", "failed to sign transaction",
          "failed to generate signed MsgEthereumTx"}
    [] cause = "ValidateBasic" ->
         {"failed to validate transaction"}
    [] OTHER ->
         {"failed to build signed tx", "failed to convert to message"}

ReturnedFrom(name) == pc = "returned" /\ entry = name

----------------------------------------------------------------------------
(* C1: for a tx type other than Legacy, AccessList and DynamicFee,         *)
(* GenerateDefaultTxTypeArgs returns the unsupported-type error with an    *)
(* empty EvmTxArgs and has called no collaborator.                         *)
C1_UnsupportedType ==
  (ReturnedFrom("GenerateDefaultTxTypeArgs") /\ input.txType \notin Supported)
    => /\ out.err = <<"tx type not supported">>
       /\ out.val = EmptyArgs
       /\ ctx.trace = <<>>
       /\ ctx.handed = <<>>
       /\ ctx.estimated = <<>>

C1_Witness ==
  /\ ReturnedFrom("GenerateDefaultTxTypeArgs")
  /\ input.txType = 3
  /\ out.err # NoErr
  /\ Len(ctx.trace) = 0

(* C2: default population never overwrites a field the caller set: the     *)
(* args a message is built from carry every caller-set field unchanged,    *)
(* the access list included.                                               *)
C2_CallerFieldsKept ==
  (pc = "returned" /\ entry \in MsgEntries /\ ctx.built # <<>>)
    => LET a == input.txArgs
           b == ctx.built[1]
       IN /\ Len(ctx.built) = 1
          /\ ctx.handed = <<a>>
          /\ (a.To # NilPtr => b.To = a.To)
          /\ (a.Input # <<>> => b.Input = a.Input)
          /\ (a.Nonce # 0 => b.Nonce = a.Nonce)
          /\ (a.GasLimit # 0 => b.GasLimit = a.GasLimit)
          /\ (a.GasPrice # NilPtr => b.GasPrice = a.GasPrice)
          /\ (a.GasFeeCap # NilPtr => b.GasFeeCap = a.GasFeeCap)
          /\ (a.GasTipCap # NilPtr => b.GasTipCap = a.GasTipCap)
          /\ (a.Amount # NilPtr => b.Amount = a.Amount)
          /\ (a.Accesses # NilPtr => b.Accesses = a.Accesses)
          /\ (entry = "GenerateMsgEthereumTx" => out.val.Args = b)

\* an access-list request with the caller's own list and nonce, the gas
\* limit left to the estimate
C2_Witness ==
  /\ ReturnedFrom("GenerateSignedEthTx")
  /\ out.err = NoErr
  /\ input.txArgs.Accesses = CallerAccesses
  /\ input.txArgs.GasPrice # NilPtr
  /\ input.txArgs.Nonce = 1
  /\ input.txArgs.GasLimit = 0
  /\ ctx.built[1].Accesses = CallerAccesses
  /\ ctx.built[1].Nonce = 1
  /\ ctx.built[1].GasLimit # 0

(* C3, as stated: in GenerateSignedEthTx and GenerateGethCoreMsg default   *)
(* population completes before signing, signing before validation, and     *)
(* validation before any conversion of the signed message (buildSignedTx   *)
(* or AsMessage).                                                          *)
C3_Original ==
  (pc = "returned" /\ entry \in {"GenerateSignedEthTx", "GenerateGethCoreMsg"})
    => /\ Precedes(ctx.trace, "populateEvmTxArgs.return", "SignMsgEthereumTx")
       /\ Precedes(ctx.trace, "SignMsgEthereumTx", "ValidateBasic")
       /\ Precedes(ctx.trace, "ValidateBasic", "buildSignedTx")
       /\ Precedes(ctx.trace, "ValidateBasic", "AsMessage")

(* C3, amended: in both calls default population completes and the         *)
(* message is built before signing starts.  In GenerateSignedEthTx signing *)
(* completes before ValidateBasic and ValidateBasic before buildSignedTx.  *)
(* GenerateGethCoreMsg never validates: there signing completes before the *)
(* base-fee query, and that query before AsMessage.                        *)
C3_Order ==
  (pc = "returned" /\ entry \in {"GenerateSignedEthTx", "GenerateGethCoreMsg"})
    => LET tr == ctx.trace IN
       /\ Precedes(tr, "populateEvmTxArgs.return", "SignMsgEthereumTx")
       /\ Precedes(tr, "buildMsgEthereumTx", "SignMsgEthereumTx")
       /\ Precedes(tr, "populateEvmTxArgs.return", "buildMsgEthereumTx")
       /\ entry = "GenerateSignedEthTx" =>
            /\ Precedes(tr, "SignMsgEthereumTx", "ValidateBasic")
            /\ Precedes(tr, "ValidateBasic", "buildSignedTx")
            /\ Count(tr, "AsMessage") = 0
       /\ entry = "GenerateGethCoreMsg" =>
            /\ Count(tr, "ValidateBasic") = 0
            /\ Count(tr, "buildSignedTx") = 0
            /\ \A j \in DOMAIN tr : tr[j] = "AsMessage" =>
                 \E i \in 1..(j - 1) :
                   /\ tr[i] = "GetBaseFee"
                   /\ \E k \in 1..(i - 1) : tr[k] = "SignMsgEthereumTx"

\* a signed tx whose whole pipeline ran, fee query and estimate included
C3_Witness ==
  /\ ReturnedFrom("GenerateSignedEthTx")
  /\ out.err = NoErr
  /\ ctx.trace = <<"populateEvmTxArgs", "GetEvmAccount", "GetBaseFee", "json.Marshal",
                   "EstimateGas", "populateEvmTxArgs.return", "buildMsgEthereumTx",
                   "SignMsgEthereumTx", "ValidateBasic", "buildSignedTx">>

(* C4, as stated: in GenerateSignedEthTx and GenerateGethCoreMsg, when a   *)
(* step fails no later step runs, the result is nil, and the error is      *)
(* wrapped with a label naming the failed step.                            *)
C4_Original ==
  (pc = "returned" /\ entry \in {"GenerateSignedEthTx", "GenerateGethCoreMsg"}
     /\ out.err # NoErr)
    => /\ LastCall(ctx.trace) = Cause(out.err)
       /\ out.val = NilPtr
       /\ \E i \in 1..(Len(out.err) - 1) : out.err[i] \in StepLabels(Cause(out.err))

(* C4, amended: when a step fails no later step runs.  When default        *)
(* population, signing, validation or the base-fee query fails the result  *)
(* is nil and the error carries the entry point's label for that stage;    *)
(* when the final conversion (buildSignedTx, AsMessage) fails, its result  *)
(* and its error are returned as the conversion gave them, with no label   *)
(* added.                                                                  *)
C4_ShortCircuit ==
  (pc = "returned" /\ entry \in {"GenerateSignedEthTx", "GenerateGethCoreMsg"}
     /\ out.err # NoErr)
    => LET cause == Cause(out.err)
           inPopulate == Count(ctx.trace, "buildMsgEthereumTx") = 0
       IN
       /\ LastCall(ctx.trace) = cause
       /\ cause \in {"buildSignedTx", "AsMessage"} => out.err = <<cause>>
       /\ cause \notin {"buildSignedTx", "AsMessage"} => out.val = NilPtr
       /\ (entry = "GenerateSignedEthTx" /\ inPopulate) =>
            /\ out.err[1] = "failed to generate signed MsgEthereumTx"
            /\ out.err[2] = "failed to create ethereum tx"
            /\ out.err[3] = "failed to populate tx args"
       /\ (entry = "GenerateSignedEthTx" /\ cause = "SignMsgEthereumTx") =>
            out.err[1] = "failed to generate signed MsgEthereumTx"
       /\ (entry = "GenerateSignedEthTx" /\ cause = "ValidateBasic") =>
            out.err = <<"failed to validate transaction", "ValidateBasic">>
       /\ (entry = "GenerateGethCoreMsg" /\ inPopulate) =>
            /\ out.err[1] = "failed to generate ethereum tx"
            /\ out.err[2] = "failed to populate tx args"
       /\ (entry = "GenerateGethCoreMsg" /\ cause = "SignMsgEthereumTx") =>
            out.err[1] = "failed to sign ethereum tx"
       /\ (entry = "GenerateGethCoreMsg" /\ cause = "GetBaseFee" /\ ~inPopulate) =>
            out.err = <<"failed to get base fee", "GetBaseFee">>

\* the base-fee query of GenerateGethCoreMsg fails after a good signature
C4_Witness ==
  /\ ReturnedFrom("GenerateGethCoreMsg")
  /\ out.err = <<"failed to get base fee", "GetBaseFee">>
  /\ out.val = NilPtr
  /\ Count(ctx.trace, "SignMsgEthereumTx") = 1
  /\ Count(ctx.trace, "AsMessage") = 0

(* C5: for Legacy and AccessList the args GenerateDefaultTxTypeArgs hands  *)
(* to default population carry a gas price of exactly 1e9 wei; for         *)
(* DynamicFee the args handed over are entirely empty.                     *)
C5_DefaultGasPrice ==
  (ReturnedFrom("GenerateDefaultTxTypeArgs") /\ input.txType \in Supported)
    => /\ Len(ctx.handed) = 1
       /\ input.txType \in {LegacyTxType, AccessListTxType} =>
            /\ ctx.handed[1].GasPrice = Ptr(1000000000)
            /\ ctx.handed[1].GasFeeCap = NilPtr
            /\ ctx.handed[1].GasTipCap = NilPtr
       /\ input.txType = DynamicFeeTxType => ctx.handed[1] = EmptyArgs

C5_Witness ==
  /\ ReturnedFrom("GenerateDefaultTxTypeArgs")
  /\ input.txType = LegacyTxType
  /\ out.err = NoErr
  /\ ctx.handed[1].GasPrice = Ptr(1000000000)
  /\ out.val.GasPrice = Ptr(1000000000)

(* C6: GenerateDefaultTxTypeArgs(sender, AccessList) yields an access list *)
(* of exactly one entry, the sender with exactly one zero storage key; for *)
(* Legacy and DynamicFee it sets no access list.                           *)
C6_DefaultAccessList ==
  (ReturnedFrom("GenerateDefaultTxTypeArgs") /\ input.txType \in Supported)
    => LET h == ctx.handed[1].Accesses
           want == Ptr(<<[Address |-> input.sender, StorageKeys |-> <<0>>]>>)
       IN /\ input.txType = AccessListTxType =>
               /\ h # NilPtr
               /\ Len(Deref(h)) = 1
               /\ Deref(h)[1].Address = input.sender
               /\ Deref(h)[1].StorageKeys = <<0>>
               /\ out.err = NoErr => out.val.Accesses = want
          /\ input.txType # AccessListTxType =>
               /\ h = NilPtr
               /\ out.err = NoErr => out.val.Accesses = NilPtr

C6_Witness ==
  /\ ReturnedFrom("GenerateDefaultTxTypeArgs")
  /\ input.txType = AccessListTxType
  /\ input.sender = "0xB2"
  /\ out.err = NoErr
  /\ out.val.Accesses = Ptr(<<[Address |-> "0xB2", StorageKeys |-> <<0>>]>>)

(* C7: GenerateSignedEthTx returns a signed transaction without error only *)
(* after its signed message passed ValidateBasic; a signed message that    *)
(* fails validation (a negative value) always gives 'failed to validate    *)
(* transaction' and no transaction.                                        *)
C7_ValidatedBeforeReturn ==
  ReturnedFrom("GenerateSignedEthTx")
    => LET signed == /\ Count(ctx.trace, "SignMsgEthereumTx") = 1
                     /\ (out.err = NoErr \/ Cause(out.err) # "SignMsgEthereumTx")
       IN /\ out.err = NoErr =>
               /\ Count(ctx.trace, "ValidateBasic") = 1
               /\ Precedes(ctx.trace, "ValidateBasic", "buildSignedTx")
               /\ ~Negative(ctx.built[1].Amount)
               /\ out.val # NilPtr
               /\ Deref(out.val).Msgs[1].Signed
               /\ ~Negative(Deref(out.val).Msgs[1].Args.Amount)
          /\ (signed /\ Negative(ctx.built[1].Amount)) =>
               /\ out.err = <<"failed to validate transaction", "ValidateBasic">>
               /\ out.val = NilPtr
               /\ Count(ctx.trace, "buildSignedTx") = 0

C7_Witness ==
  /\ ReturnedFrom("GenerateSignedEthTx")
  /\ input.txArgs.Amount = Ptr(-1)
  /\ Count(ctx.trace, "SignMsgEthereumTx") = 1
  /\ out.err = <<"failed to validate transaction", "ValidateBasic">>
  /\ out.val = NilPtr

(* C8: when EstimateGas fails, EstimateGasLimit returns 'failed to         *)
(* estimate gas' wrapping the cause with gas exactly 0; every error return *)
(* of EstimateGasLimit carries gas 0.                                      *)
C8_ZeroGasOnError ==
  ReturnedFrom("EstimateGasLimit")
    => /\ out.err # NoErr => out.val = 0
       /\ (out.err # NoErr /\ Cause(out.err) = "EstimateGas") =>
            out.err = <<"failed to estimate gas", "EstimateGas">>
       /\ out.err = NoErr => out.val = MaxGas + 1

C8_Witness ==
  /\ ReturnedFrom("EstimateGasLimit")
  /\ out.err = <<"failed to estimate gas", "EstimateGas">>
  /\ out.val = 0

(* C9: EstimateGasLimit surfaces a serialization failure as 'failed to     *)
(* marshal tx args' with EstimateGas never called, and a collaborator      *)
(* failure as 'failed to estimate gas' after exactly one EstimateGas call  *)
(* made with the fixed gas cap; no call issues more than one EstimateGas   *)
(* query.                                                                  *)
C9_DistinctFailures ==
  pc = "returned"
    => /\ Count(ctx.trace, "EstimateGas") <= 1
       /\ Len(ctx.estimated) = Count(ctx.trace, "EstimateGas")
       /\ \A i \in DOMAIN ctx.estimated : ctx.estimated[i].gasCap = "config.DefaultGasCap"
       /\ (entry = "EstimateGasLimit" /\ out.err # NoErr) =>
            \/ /\ out.err = <<"failed to marshal tx args", "json.Marshal">>
               /\ Count(ctx.trace, "EstimateGas") = 0
            \/ /\ out.err = <<"failed to estimate gas", "EstimateGas">>
               /\ Count(ctx.trace, "EstimateGas") = 1
               /\ ctx.estimated[1].args = TransactionArgs(input.from, input.txArgs)

C9_Witness ==
  /\ ReturnedFrom("EstimateGasLimit")
  /\ out.err = <<"failed to marshal tx args", "json.Marshal">>
  /\ Count(ctx.trace, "EstimateGas") = 0
  /\ input.txArgs.Accesses = CallerAccesses

(* C10, as stated: every public entry point (GenerateDefaultTxTypeArgs,    *)
(* EstimateGasLimit, GenerateSignedEthTx, GenerateSignedMsgEthereumTx,     *)
(* GenerateGethCoreMsg) performs exactly one local signing operation on a  *)
(* call that completes successfully.                                       *)
C10_Original ==
  (pc = "returned" /\ out.err = NoErr
     /\ entry \in {"GenerateDefaultTxTypeArgs", "EstimateGasLimit", "GenerateSignedEthTx",
                   "GenerateSignedMsgEthereumTx", "GenerateGethCoreMsg"})
    => Count(ctx.trace, "SignMsgEthereumTx") = 1

(* C10, amended: a successful GenerateSignedEthTx, GenerateSignedMsg-      *)
(* EthereumTx or GenerateGethCoreMsg performs exactly one local signing    *)
(* operation; GenerateDefaultTxTypeArgs and EstimateGasLimit perform none. *)
C10_SigningCount ==
  pc = "returned"
    => /\ (out.err = NoErr /\ entry \in {"GenerateSignedEthTx", "GenerateSignedMsgEthereumTx",
                                         "GenerateGethCoreMsg"}) =>
            Count(ctx.trace, "SignMsgEthereumTx") = 1
       /\ entry \in {"GenerateDefaultTxTypeArgs", "EstimateGasLimit"} =>
            Count(ctx.trace, "SignMsgEthereumTx") = 0

\* a signed message made without a single query: the caller set every field
C10_Witness ==
  /\ ReturnedFrom("GenerateSignedMsgEthereumTx")
  /\ out.err = NoErr
  /\ out.val.Signed
  /\ ctx.trace = <<"populateEvmTxArgs", "populateEvmTxArgs.return", "buildMsgEthereumTx",
                   "SignMsgEthereumTx">>

====
